---- MODULE Spec2Model ----
(***************************************************************************)
(* Model of sim/shared_yfrac.py: population cell generation with           *)
(* round-robin distribution over compute partitions (Pop.createCells,      *)
(* Cell.make, Cell.associateGid) and probabilistic connectivity generation *)
(* (Conn.connect, Conn.__init__).                                          *)
(*                                                                         *)
(* Real numbers are carried in fixed point:                                *)
(*   uniform draws and class-pair function values in thousandths (milli),  *)
(*   depth fractions (yfrac) in millionths,                                *)
(*   locations and distances in um (distance = floor of the square root),  *)
(*   probabilities and exp() in millionths (ppm),                          *)
(*   delays in microseconds (1e-3 ms), weights in tenths.                  *)
(***************************************************************************)
EXTENDS Integers, Sequences, FiniteSets, TLC

VARIABLES
    nhosts,     \* s.nhosts: number of compute partitions (MPI hosts)
    pops,       \* the population table (list of Pop objects), same on every partition
    genrand,    \* the draws rand() yields after seed(id32('%d' % randseed))
    node,       \* per partition (rank): the process-local state of module s
    cellsPre,   \* Conn.connect argument: list of candidate presynaptic cells
    cellPost,   \* Conn.connect argument: the postsynaptic cell
    toroidal,   \* s.toroidal
    connrand,   \* the stream rand() yields after seed(s.id32('%d'%(s.randseed+cellPost.gid)))
    call,       \* outcome of the Conn.connect call on cellsPre
    call2       \* outcome of a second Conn.connect call on a reordering of cellsPre

vars == <<nhosts, pops, genrand, node, cellsPre, cellPost, toroidal, connrand, call, call2>>

genVars == <<nhosts, pops, genrand, node>>
connVars == <<cellsPre, cellPost, toroidal, connrand, call, call2>>

(***************************************************************************)
(* Bounds of the model                                                     *)
(***************************************************************************)
MaxHosts == 2   \* partitions are 0..nhosts-1 with nhosts in 1..MaxHosts
MaxCand == 2    \* largest int(maxCells) of a population
MaxPre == 3     \* longest candidate list handed to Conn.connect

(***************************************************************************)
(* class Labels                                                            *)
(***************************************************************************)
AMPA == 0
NMDA == 1
GABAA == 2
GABAB == 3
opsin == 4
numReceptors == 5
E == 0
I == 1
IT == 0
PT == 1
CT == 2
HTR == 3
Pva == 4
Sst == 5
numTopClass == 6
other == 1
Basket == 4
Marti == 6
Izhi2007 == 0
Friesen == 1
HH == 2

CellModels == {Izhi2007, Friesen, HH}

(***************************************************************************)
(* Parameters (module globals read through s)                              *)
(***************************************************************************)
randseed == 1
mindelay == 2
velocity == 100
modelsize == 1000

\* the values a uniform draw of rand() takes in the model, in thousandths
DrawVals == {250, 750}

(***************************************************************************)
(* Sequence helpers                                                        *)
(***************************************************************************)
Last(s) == s[Len(s)]

\* Python's range(first, stop, step) as a sequence
RECURSIVE XRange(_, _, _)
XRange(first, stop, step) ==
    IF first >= stop THEN <<>> ELSE <<first>> \o XRange(first + step, stop, step)

(***************************************************************************)
(* Rows of the population table `pops` (popid, EorI, topClass, subClass,   *)
(* yfracRange in thousandths, density).  density "lin" is a function       *)
(* proportional to yfrac (lambda x: 2e3*x), "const" a constant function.   *)
(***************************************************************************)
PopRows ==
    << [popgid |-> 0, EorI |-> E, topClass |-> IT,  subClass |-> other,  lo |-> 100, hi |-> 260, density |-> "lin"],
       [popgid |-> 4, EorI |-> E, topClass |-> PT,  subClass |-> other,  lo |-> 520, hi |-> 770, density |-> "const"] >>

\* number of populations
NumPops == Len(PopRows)

\* the k-th (1-based) draw of a seeded stream; the model chooses the first
\* Len(stream) draws freely and lets later draws repeat them
Draw(stream, k) == stream[((k - 1) % Len(stream)) + 1]

(***************************************************************************)
(* class Cell                                                              *)
(***************************************************************************)
\* Cell.make: the simulatable unit; an unrecognized cell model only prints a
\* message and leaves self.m = [] ("none"); make never raises.
make(cellModel, topClass) ==
    IF cellModel = Izhi2007
    THEN IF topClass \in 0..2 THEN "RS"
         ELSE IF topClass = Pva THEN "FS"
         ELSE IF topClass = Sst THEN "LTS"
         ELSE "none"
    ELSE "none"

\* gidDic[gid] = value (a Python dict assignment)
DictSet(dic, gid, value) ==
    [g \in (DOMAIN dic) \cup {gid} |-> IF g = gid THEN value ELSE dic[g]]

\* Cell.associateGid on the partition state nd.  set_gid2node is called first;
\* for a cell model other than Izhi2007 the NetCon source self.soma does not
\* exist and the call raises (AttributeError) before pc.cell and gidVec.
associateGid(nd, cell) ==
    LET reg == [nd EXCEPT !.gid2node = Append(@, cell.gid)]
    IN  IF cell.cellModel = Izhi2007
        THEN [reg EXCEPT !.pcCell = Append(@, cell.gid),
                         !.gidVec = Append(@, cell.gid),
                         !.gidDic = DictSet(@, cell.gid, Len(nd.gidVec) + 1)]
        ELSE [reg EXCEPT !.status = "AttributeError"]

\* Cell.__init__: make, then associateGid; the constructed object is added to
\* the list `cells` only when the constructor returns.
CellInit(nd, gid, pop, yfrac, xloc, zloc) ==
    LET cell == [gid |-> gid, popid |-> pop.popgid, EorI |-> pop.EorI,
                 topClass |-> pop.topClass, subClass |-> pop.subClass,
                 yfrac |-> yfrac, xloc |-> xloc, zloc |-> zloc,
                 cellModel |-> pop.cellModel,
                 m |-> make(pop.cellModel, pop.topClass)]
        nd2 == associateGid(nd, cell)
    IN  IF nd2.status = "running"
        THEN [nd2 EXCEPT !.cells = Append(@, cell)]
        ELSE nd2

(***************************************************************************)
(* class Pop                                                               *)
(***************************************************************************)
\* yfracsAll[i] (0-based i), in millionths
yfracsAll(pop, stream, i) == pop.lo * 1000 + (pop.hi - pop.lo) * Draw(stream, i + 1)

\* the largest yfrac of arange(lo, hi, 0.001), in thousandths
MaxYfrac(pop) == pop.hi - 1

\* TRUE iff yfracsProb[i] > r: density(yfrac_i)/maxDensity against a draw r (milli)
ProbAbove(pop, stream, i, r) ==
    IF pop.density = "lin"
    THEN yfracsAll(pop, stream, i) > r * MaxYfrac(pop)
    ELSE 1000 > r

\* allrands[j] (0-based j) of createCells: the draws after the n of yfracsAll
genAllrands(n, stream, j) == Draw(stream, n + j + 1)

\* makethiscell.nonzero()[0] as a set of candidate indices.  For a density that
\* maps the (1,)-shaped rows of yfracsAll to arrays, yfracsProb has shape (n,1)
\* and yfracsProb>allrands broadcasts to an n x n matrix, whose nonzero rows are
\* the i with yfracsProb[i] > allrands[j] for some j.  A constant density gives
\* a flat yfracsProb and the comparison is elementwise.
makethiscell(pop, stream) ==
    LET n == pop.maxCells
    IN  IF pop.density = "lin"
        THEN {i \in 0..(n - 1) : \E j \in 0..(n - 1) :
                  ProbAbove(pop, stream, i, genAllrands(n, stream, j))}
        ELSE {i \in 0..(n - 1) : ProbAbove(pop, stream, i, genAllrands(n, stream, i))}

\* yfracs: the kept candidate indices in draw order
yfracsIdx(pop, stream) ==
    SelectSeq([k \in 1..pop.maxCells |-> k - 1], LAMBDA i : i \in makethiscell(pop, stream))

\* randLocs[i, c] (0-based), drawn after yfracsAll and allrands
randLocs(pop, stream, i, c) == Draw(stream, 2 * pop.maxCells + 2 * i + c + 1)

\* lastGid as createCells derives it from the partition's own gidVec
lastGidOf(nd) == IF nd.gidVec # <<>> THEN Last(nd.gidVec) + 1 ELSE 0

\* the loop `for i in xrange(rank, numCells, nhosts)` from position k of its
\* index list; an exception raised by Cell(...) ends it
RECURSIVE CellLoop(_, _, _, _, _, _, _, _)
CellLoop(nd, ipop, pop, stream, keep, lastGid, idx, k) ==
    IF k > Len(idx) \/ nd.status # "running" THEN nd
    ELSE LET i == idx[k]
             gid == lastGid + i
             nd1 == [nd EXCEPT !.cellGids[ipop] = Append(@, gid)]
             x == (modelsize * randLocs(pop, stream, i, 0)) \div 1000
             z == (modelsize * randLocs(pop, stream, i, 1)) \div 1000
             y == yfracsAll(pop, stream, keep[i + 1])
         IN  CellLoop(CellInit(nd1, gid, pop, y, x, z), ipop, pop, stream, keep, lastGid, idx, k + 1)

\* Pop.createCells of population number ipop on partition rank
createCells(nd, ipop, pop, stream, rank, N) ==
    LET keep == yfracsIdx(pop, stream)
        numCells == Len(keep)
        nd0 == [nd EXCEPT !.numCells[ipop] = numCells]
        lastGid == lastGidOf(nd)
        nd1 == CellLoop(nd0, ipop, pop, stream, keep, lastGid,
                        XRange(rank, numCells, N), 1)
    IN  IF nd1.status = "running"
        THEN [nd1 EXCEPT !.nextPop = @ + 1, !.returned = Append(@, lastGid + numCells)]
        ELSE nd1

(***************************************************************************)
(* Generation: state machine                                               *)
(***************************************************************************)
Ranks == 0..(nhosts - 1)

NodeInit ==
    [gidVec |-> <<>>, gidDic |-> <<>>, gid2node |-> <<>>, pcCell |-> <<>>,
     cellGids |-> [k \in 1..NumPops |-> <<>>],
     numCells |-> [k \in 1..NumPops |-> 0],
     cells |-> <<>>, returned |-> <<>>, nextPop |-> 1, status |-> "running"]

NoCell == [gid |-> -1]
NoCall == [status |-> "none"]

ConnIdle ==
    /\ cellsPre = <<>>
    /\ cellPost = NoCell
    /\ toroidal = FALSE
    /\ connrand = <<>>
    /\ call = NoCall
    /\ call2 = NoCall

InitGen ==
    /\ nhosts \in 1..MaxHosts
    /\ \E models \in [1..NumPops -> CellModels], sizes \in [1..NumPops -> 0..MaxCand] :
         pops = [k \in 1..NumPops |->
                   [popgid |-> PopRows[k].popgid, EorI |-> PopRows[k].EorI,
                    topClass |-> PopRows[k].topClass, subClass |-> PopRows[k].subClass,
                    lo |-> PopRows[k].lo, hi |-> PopRows[k].hi,
                    density |-> PopRows[k].density,
                    cellModel |-> models[k], maxCells |-> sizes[k]]]
    /\ genrand \in [1..(2 * MaxCand + 1) -> DrawVals]
    /\ node = [r \in 0..(nhosts - 1) |-> NodeInit]
    /\ ConnIdle

\* partition r runs createCells for its next population
CreateCells(r) ==
    /\ node[r].status = "running"
    /\ node[r].nextPop <= NumPops
    /\ node' = [node EXCEPT ![r] =
                  createCells(node[r], node[r].nextPop, pops[node[r].nextPop], genrand, r, nhosts)]
    /\ UNCHANGED <<nhosts, pops, genrand>>
    /\ UNCHANGED connVars

NextGen == \E r \in Ranks : CreateCells(r)

SpecGen == InitGen /\ [][NextGen]_vars

(***************************************************************************)
(* class Conn: the class-level tables                                      *)
(***************************************************************************)
\* the assignments connProbs[pre][post] = f, in source order.  "itit" is
\* lambda x,y: 0.1*x+0.1/y, "itpt" is lambda x,y: 0.2*x if (x>0.5 and x<0.8)
\* else 0, "one" and "zero" the constant functions of two arguments.
ProbAssign ==
    << <<IT, IT, "itit">>, <<IT, PT, "itpt">>, <<IT, CT, "one">>, <<IT, Pva, "one">>, <<IT, Sst, "one">>,
       <<PT, IT, "zero">>, <<PT, PT, "one">>, <<PT, CT, "zero">>, <<PT, Pva, "one">>, <<PT, Sst, "one">>,
       <<CT, IT, "one">>, <<CT, PT, "zero">>, <<CT, CT, "one">>, <<CT, Pva, "one">>, <<CT, Sst, "one">>,
       <<Pva, IT, "one">>, <<Pva, PT, "one">>, <<Pva, CT, "one">>, <<Pva, Pva, "one">>, <<Pva, Sst, "one">>,
       <<Sst, IT, "one">>, <<Sst, PT, "one">>, <<Sst, CT, "one">>, <<Sst, Pva, "one">>, <<Sst, Sst, "one">> >>

\* the assignments connWeights[pre][post][receptor] = f, in source order; every
\* assigned function is constant and is given by its value
WeightAssign ==
    << <<IT, IT, AMPA, 1>>, <<IT, PT, AMPA, 1>>, <<IT, CT, AMPA, 1>>, <<IT, Pva, AMPA, 1>>, <<IT, Sst, AMPA, 1>>,
       <<PT, IT, AMPA, 0>>, <<PT, PT, AMPA, 1>>, <<PT, CT, AMPA, 0>>, <<PT, Pva, AMPA, 1>>, <<PT, Sst, AMPA, 1>>,
       <<CT, IT, AMPA, 1>>, <<CT, PT, AMPA, 0>>, <<CT, CT, AMPA, 1>>, <<CT, Pva, AMPA, 1>>, <<CT, Sst, AMPA, 1>>,
       <<Pva, IT, GABAA, 1>>, <<Pva, PT, GABAA, 1>>, <<Pva, CT, GABAA, 1>>, <<Pva, Pva, GABAA, 1>>, <<Pva, Sst, GABAA, 1>>,
       <<Sst, IT, GABAB, 1>>, <<Sst, PT, GABAB, 1>>, <<Sst, CT, GABAB, 1>>, <<Sst, Pva, GABAB, 1>>, <<Sst, Sst, GABAB, 1>> >>

MaxOf(S) == CHOOSE x \in S : \A y \in S : y <= x

\* connProbs[pre][post] as the class body leaves it.  The table is built as
\* [[f0]*numTopClass]*numTopClass, so its numTopClass rows are one list object:
\* an assignment to [a][post] replaces entry post of every row, and the entry
\* read is the last one assigned to column post whatever its row.  A column
\* never assigned keeps the initial lambda x: 0 of ONE argument ("zero1").
connProbs(pre, post) ==
    LET hits == {k \in 1..Len(ProbAssign) : ProbAssign[k][2] = post}
    IN  IF hits = {} THEN "zero1" ELSE ProbAssign[MaxOf(hits)][3]

\* connWeights[pre][post][receptor] as the class body leaves it, by its value.
\* [[[f0]*numReceptors]*numTopClass]*numTopClass shares one innermost list
\* among all (pre, post): the entry read is the last one assigned to that
\* receptor whatever the pair; a receptor never assigned keeps lambda x,y: 0.
connWeights(pre, post, receptor) ==
    LET hits == {k \in 1..Len(WeightAssign) : WeightAssign[k][3] = receptor}
    IN  IF hits = {} THEN 0 ELSE WeightAssign[MaxOf(hits)][4]

\* value in thousandths of a probability function at yfracs x, y (millionths)
ProbValue(fn, x, y) ==
    CASE fn = "itit" -> (x \div 10000) + (100000000 \div y)
      [] fn = "itpt" -> IF x > 500000 /\ x < 800000 THEN x \div 5000 ELSE 0
      [] fn = "one"  -> 1000
      [] OTHER       -> 0

\* scaleconnprob[pre.EorI, post.EorI] = 200/scale*array([[1, 1], [1, 1]])
scaleconnprob(a, b) == 200

\* scaleconnweight[pre.EorI, post.EorI] = 4*array([[2, 1], [2, 0.1]]), in tenths
scaleconnweight(a, b) ==
    IF a = E THEN (IF b = E THEN 80 ELSE 40) ELSE (IF b = E THEN 80 ELSE 4)

\* receptorweight[r]
receptorweight(r) == 1

\* connfalloff[pre.EorI] = 100*array([2, 3]), in um
connfalloff(a) == IF a = E THEN 200 ELSE 300

(***************************************************************************)
(* Numeric helpers                                                         *)
(***************************************************************************)
Abs(x) == IF x < 0 THEN -x ELSE x

RECURSIVE SqrtLoop(_, _, _)
SqrtLoop(n, lo, hi) ==
    IF lo >= hi THEN lo
    ELSE LET mid == (lo + hi + 1) \div 2
         IN  IF mid * mid <= n THEN SqrtLoop(n, mid, hi) ELSE SqrtLoop(n, lo, mid - 1)

\* sqrt(n), rounded down
Sqrt(n) == SqrtLoop(n, 0, 2 * modelsize)

\* 1000 * (1 + x + x^2/2! + ...) for x = d/f, from the term of index k on
RECURSIVE ExpSeries(_, _, _, _)
ExpSeries(d, f, term, k) ==
    IF term = 0 THEN 0 ELSE term + ExpSeries(d, f, (term * d) \div (f * k), k + 1)

\* exp(-d/f) in millionths
ExpNeg(d, f) == 1000000000 \div ExpSeries(d, f, 1000, 1)

\* Python's list comparison a < b (lexicographic)
RECURSIVE ListLess(_, _)
ListLess(a, b) ==
    IF b = <<>> THEN FALSE
    ELSE IF a = <<>> THEN TRUE
    ELSE IF Head(a) # Head(b) THEN Head(a) < Head(b)
    ELSE ListLess(Tail(a), Tail(b))

(***************************************************************************)
(* Conn.connect                                                            *)
(***************************************************************************)
\* path[path2<path] = path2[path2<path] on two Python lists: the comparison
\* is ONE boolean, used as index 0 or 1.  The result is [ok, path]; ok is FALSE
\* when that index is out of range (IndexError).
TorusAssign(path, path2) ==
    LET idx == IF ListLess(path2, path) THEN 1 ELSE 0
    IN  IF idx >= Len(path)
        THEN [ok |-> FALSE, path |-> path]
        ELSE [ok |-> TRUE, path |-> [path EXCEPT ![idx + 1] = path2[idx + 1]]]

\* the planar distances of connect, one per candidate: [ok, d]
Distances(pre, post, tor) ==
    LET n == Len(pre)
        xpath == [i \in 1..n |-> (pre[i].xloc - post.xloc) * (pre[i].xloc - post.xloc)]
        zpath == [i \in 1..n |-> (pre[i].zloc - post.zloc) * (pre[i].zloc - post.zloc)]
    IN  IF tor
        THEN LET xpath2 == [i \in 1..n |-> (modelsize - Abs(pre[i].xloc - post.xloc))
                                             * (modelsize - Abs(pre[i].xloc - post.xloc))]
                 zpath2 == [i \in 1..n |-> (modelsize - Abs(pre[i].zloc - post.zloc))
                                             * (modelsize - Abs(pre[i].zloc - post.zloc))]
                 xa == TorusAssign(xpath, xpath2)
                 za == TorusAssign(zpath, zpath2)
             IN  IF xa.ok /\ za.ok
                 THEN [ok |-> TRUE, d |-> [i \in 1..n |-> Sqrt(xa.path[i] + za.path[i])]]
                 ELSE [ok |-> FALSE, d |-> <<>>]
        ELSE [ok |-> TRUE, d |-> [i \in 1..n |-> Sqrt(xpath[i] + zpath[i])]]

\* allconnprobs before the self-connection line, in millionths
ConnProbs(pre, post, distances) ==
    [i \in 1..Len(pre) |->
        scaleconnprob(pre[i].EorI, post.EorI)
          * ((ProbValue(connProbs(pre[i].topClass, post.topClass), pre[i].yfrac, post.yfrac)
                * ExpNeg(distances[i], connfalloff(pre[i].EorI))) \div 1000)]

\* allconnprobs[cellPost.gid] = 0: the entry at POSITION cellPost.gid
ZeroSelf(probs, post) == [probs EXCEPT ![post.gid + 1] = 0]

\* preids: the (0-based) positions i with allconnprobs[i] > allrands[i]
Preids(probs, stream) ==
    SelectSeq([i \in 1..Len(probs) |-> i - 1],
              LAMBDA p : probs[p + 1] > 1000 * Draw(stream, p + 1))

\* a variant of Delays that takes the distance of row k of the result instead
\* of the distance of the candidate at position preids[k]
DelaysByRow(distances, preids) ==
    [k \in 1..Len(preids) |-> mindelay * 1000 + (distances[k] * 1000) \div velocity]

\* delays = mindelay + distances[preids]/float(velocity), in 1e-3 ms
Delays(distances, preids) ==
    [k \in 1..Len(preids) |-> mindelay * 1000 + (distances[preids[k] + 1] * 1000) \div velocity]

\* finalweights: one row per realized connection, one column per receptor
FinalWeights(pre, post, preids) ==
    [k \in 1..Len(preids) |->
        LET x == pre[preids[k] + 1]
        IN  [r \in 0..(numReceptors - 1) |->
                scaleconnweight(x.EorI, post.EorI)
                  * connWeights(x.topClass, post.topClass, r) * receptorweight(r)]]

\* Conn.__init__: the record and the gid_connect call it makes
ConnInit(preGid, post, delay, weight) ==
    [preid |-> preGid, postid |-> post.gid, delay |-> delay, weight |-> weight,
     netcon |-> [srcgid |-> preGid, target |-> post.gid, delay |-> delay, weight |-> weight]]

Raised(pre, err) ==
    [status |-> err, cellsPre |-> pre, distances |-> <<>>, allconnprobs |-> <<>>,
     preids |-> <<>>, newConns |-> <<>>]

\* Conn.connect(cellsPre, cellPost, s) with the draws of the stream seeded
\* from randseed + cellPost.gid
connect(pre, post, tor, stream) ==
    LET dist == Distances(pre, post, tor)
    IN  IF ~dist.ok THEN Raised(pre, "IndexError")
        ELSE IF pre # <<>> /\ \E i \in 1..Len(pre) :
                    connProbs(pre[i].topClass, post.topClass) = "zero1"
        THEN Raised(pre, "TypeError")
        ELSE IF post.gid >= Len(pre) THEN Raised(pre, "IndexError")
        ELSE LET probs == ZeroSelf(ConnProbs(pre, post, dist.d), post)
                 preids == Preids(probs, stream)
                 delays == Delays(dist.d, preids)
             IN  IF preids = <<>>
                 \* array(wt2)*wt3 with wt2 = []: shapes (0,) and (5,) do not broadcast
                 THEN Raised(pre, "ValueError")
                 ELSE LET finalweights == FinalWeights(pre, post, preids)
                      IN  [status |-> "returned", cellsPre |-> pre, distances |-> dist.d,
                           allconnprobs |-> probs, preids |-> preids,
                           newConns |-> [k \in 1..Len(preids) |->
                               ConnInit(preids[k], post, delays[k], finalweights[k])]]

(***************************************************************************)
(* Connectivity: state machine.  The network is one generated on a single  *)
(* partition (gid = position in the network); a call takes any list of     *)
(* distinct cells of it as candidates.                                     *)
(***************************************************************************)
NetCell(gid, popid, ei, cls, sub, yfrac, x, z) ==
    [gid |-> gid, popid |-> popid, EorI |-> ei, topClass |-> cls, subClass |-> sub,
     yfrac |-> yfrac, xloc |-> x, zloc |-> z, cellModel |-> Izhi2007,
     m |-> make(Izhi2007, cls)]

Network ==
    << NetCell(0, 0, E, IT,  other,  140000,  50,  50),
       NetCell(1, 0, E, IT,  other,  220000, 350, 450),
       NetCell(2, 4, E, PT,  other,  600000, 950, 900),
       NetCell(3, 6, I, Pva, Basket, 200000, 900, 100),
       NetCell(4, 7, I, Sst, Marti,  300000, 100, 950) >>

\* the lists of distinct cells of the network of length n
RECURSIVE CellLists(_)
CellLists(n) ==
    IF n = 0 THEN {<<>>}
    ELSE {Append(l, Network[g]) : l \in CellLists(n - 1), g \in 1..Len(Network)}

Distinct(l) == \A i, j \in 1..Len(l) : i # j => l[i] # l[j]

Candidates == UNION {{l \in CellLists(n) : Distinct(l)} : n \in 0..MaxPre}

\* the reorderings of list l
Perms(l) ==
    {[i \in 1..Len(l) |-> l[f[i]]] :
        f \in {g \in [1..Len(l) -> 1..Len(l)] : \A i, j \in 1..Len(l) : i # j => g[i] # g[j]}}

GenIdle ==
    /\ nhosts = 1
    /\ pops = <<>>
    /\ genrand = <<>>
    /\ node = <<>>

InitConn ==
    /\ GenIdle
    /\ cellsPre \in Candidates
    /\ cellPost \in {Network[g] : g \in 1..Len(Network)}
    /\ toroidal \in BOOLEAN
    /\ connrand \in [1..MaxPre -> DrawVals]
    /\ call = NoCall
    /\ call2 = NoCall

\* Conn.connect(cellsPre, cellPost, s)
Connect ==
    /\ call = NoCall
    /\ call' = connect(cellsPre, cellPost, toroidal, connrand)
    /\ UNCHANGED <<cellsPre, cellPost, toroidal, connrand, call2>>
    /\ UNCHANGED genVars

\* Conn.connect for the same cellPost and seed on another ordering of cellsPre
Reconnect ==
    /\ call # NoCall
    /\ call2 = NoCall
    /\ \E l \in Perms(cellsPre) :
          /\ l # cellsPre
          /\ call2' = connect(l, cellPost, toroidal, connrand)
    /\ UNCHANGED <<cellsPre, cellPost, toroidal, connrand, call>>
    /\ UNCHANGED genVars

NextConn == Connect \/ Reconnect

SpecConn == InitConn /\ [][NextConn]_vars

(***************************************************************************)
(* Properties of generation (SpecGen)                                      *)
(***************************************************************************)
Range(q) == {q[i] : i \in DOMAIN q}

NoDuplicates(q) == \A i, j \in DOMAIN q : i # j => q[i] # q[j]

\* every partition has returned from createCells for every population
GenDone == \A r \in Ranks : node[r].nextPop > NumPops

\* numCells of population number k, as every partition computes it
NumCellsOf(k) == Len(yfracsIdx(pops[k], genrand))

RECURSIVE CellsBefore(_)
CellsBefore(k) == IF k <= 1 THEN 0 ELSE CellsBefore(k - 1) + NumCellsOf(k - 1)

\* the (gid, population id, generation index) triples materialized on partition r
Materialized(r) ==
    UNION {{<<node[r].cellGids[k][j], pops[k].popgid, r + (j - 1) * nhosts>> :
              j \in 1..Len(node[r].cellGids[k])} : k \in 1..NumPops}

\* the triples of a single-partition run: contiguous gids in population order
SinglePartition ==
    UNION {{<<CellsBefore(k) + i, pops[k].popgid, i>> : i \in 0..(NumCellsOf(k) - 1)} :
             k \in 1..NumPops}

\* C1: once every partition has run createCells for all populations, no gid is
\* registered (set_gid2node) by two different partitions and none is
\* registered twice on one partition.
C1_GidOwnedOnce ==
    GenDone =>
        /\ \A r1, r2 \in Ranks :
              r1 # r2 => Range(node[r1].gid2node) \cap Range(node[r2].gid2node) = {}
        /\ \A r \in Ranks : NoDuplicates(node[r].gid2node)

\* C2: once every partition has run createCells for all populations, the union
\* over the partitions of the materialized (gid, population id, generation
\* index) triples equals the single-partition set, in which population k gets
\* the contiguous gids that start at the cell count of the populations before.
C2_UnionIsSinglePartition ==
    GenDone => UNION {Materialized(r) : r \in Ranks} = SinglePartition

\* C9: a cell of a population whose cell model is not Izhi2007 is never
\* registered with the spike-routing layer: its gid reaches neither
\* set_gid2node nor pc.cell nor gidVec nor gidDic.
C9_UnrecognizedNotRegistered ==
    \A r \in Ranks : \A k \in 1..NumPops :
        pops[k].cellModel # Izhi2007 =>
            \A j \in 1..Len(node[r].cellGids[k]) :
                LET gid == node[r].cellGids[k][j]
                IN  /\ gid \notin Range(node[r].gid2node)
                    /\ gid \notin Range(node[r].pcCell)
                    /\ gid \notin Range(node[r].gidVec)
                    /\ gid \notin DOMAIN node[r].gidDic

(***************************************************************************)
(* Properties of Conn.connect (SpecConn)                                   *)
(***************************************************************************)
\* the candidate of row k of a returned call
Candidate(c, k) == c.cellsPre[c.preids[k] + 1]

\* the gids of the candidates a returned call connected
Realized(c) == {Candidate(c, k).gid : k \in 1..Len(c.preids)}

\* the function the table text assigns to exactly (pre, post); "zero" if none
AssignedProb(pre, post) ==
    LET hits == {k \in 1..Len(ProbAssign) : ProbAssign[k][1] = pre /\ ProbAssign[k][2] = post}
    IN  IF hits = {} THEN "zero" ELSE ProbAssign[MaxOf(hits)][3]

\* the value the table text assigns to exactly (pre, post, receptor); 0 if none
AssignedWeight(pre, post, receptor) ==
    LET hits == {k \in 1..Len(WeightAssign) :
                    /\ WeightAssign[k][1] = pre
                    /\ WeightAssign[k][2] = post
                    /\ WeightAssign[k][3] = receptor}
    IN  IF hits = {} THEN 0 ELSE WeightAssign[MaxOf(hits)][4]

\* C3: no connection a call returns is made from a candidate whose gid is the
\* gid of the postsynaptic cell.
C3_NoSelfConnection ==
    call.status = "returned" =>
        \A k \in 1..Len(call.newConns) : Candidate(call, k).gid # cellPost.gid

\* C4: two calls for the same postsynaptic cell and seed on two orderings of
\* the same candidate set connect the same set of presynaptic cells.
C4_OrderIndependent ==
    (call.status = "returned" /\ call2.status = "returned") =>
        Realized(call) = Realized(call2)

\* C5: a call with an empty candidate list completes without an error and
\* returns an empty list of connections.
C5_EmptyCandidates ==
    (call # NoCall /\ cellsPre = <<>>) =>
        (call.status = "returned" /\ call.newConns = <<>>)

\* C6: the probability function applied to a candidate is the one the table
\* assigns to exactly its (pre.topClass, post.topClass) pair, the zero function
\* if none; no connection is made over a pair whose function is constantly 0.
C6_ProbTablePerPair ==
    call.status = "returned" =>
        /\ \A i \in 1..Len(call.cellsPre) :
              LET applied == connProbs(call.cellsPre[i].topClass, cellPost.topClass)
                  assigned == AssignedProb(call.cellsPre[i].topClass, cellPost.topClass)
              IN  ProbValue(applied, call.cellsPre[i].yfrac, cellPost.yfrac)
                    = ProbValue(assigned, call.cellsPre[i].yfrac, cellPost.yfrac)
        /\ \A k \in 1..Len(call.newConns) :
              AssignedProb(Candidate(call, k).topClass, cellPost.topClass) # "zero"

\* C7: weight component r of a connection is scaleconnweight[pre.EorI,
\* post.EorI] * W(pre.topClass, post.topClass, r) * receptorweight[r], W being
\* what the weight table assigns to exactly that triple and 0 if none.
C7_WeightTablePerTriple ==
    call.status = "returned" =>
        \A k \in 1..Len(call.newConns) : \A r \in 0..(numReceptors - 1) :
            LET x == Candidate(call, k)
            IN  call.newConns[k].weight[r] =
                    scaleconnweight(x.EorI, cellPost.EorI)
                      * AssignedWeight(x.topClass, cellPost.topClass, r) * receptorweight(r)

\* C8: every connection a call returns has delay = mindelay + d/velocity, d
\* being the planar distance the call computed for that connection's
\* candidate; hence its delay is at least mindelay.
C8_DelayFromDistance ==
    call.status = "returned" =>
        \A k \in 1..Len(call.newConns) :
            LET d == call.distances[call.preids[k] + 1]
            IN  /\ call.newConns[k].delay = mindelay * 1000 + (d * 1000) \div velocity
                /\ call.newConns[k].netcon.delay = call.newConns[k].delay
                /\ call.newConns[k].delay >= mindelay * 1000

\* a returned call whose first connection comes from a candidate that is not
\* first in the list and lies at another distance than the first candidate
C8_Witness ==
    /\ call.status = "returned"
    /\ Len(call.newConns) >= 2
    /\ call.preids[1] # 0
    /\ call.distances[call.preids[1] + 1] # call.distances[1]
    /\ call.distances[call.preids[1] + 1] > 0

\* C10: the presynaptic id recorded in a connection and handed to gid_connect
\* is the gid of the candidate that was selected.
C10_PreIdIsCandidateGid ==
    call.status = "returned" =>
        \A k \in 1..Len(call.newConns) :
            /\ call.newConns[k].preid = Candidate(call, k).gid
            /\ call.newConns[k].netcon.srcgid = Candidate(call, k).gid

\* the smaller of two numbers
Min(a, b) == IF a < b THEN a ELSE b

\* the separation of two coordinates along one axis of the torus: the smaller
\* of the direct and the wrap-around separation
WrapSep(a, b) == Min(Abs(a - b), modelsize - Abs(a - b))

\* the planar distance the topology calls for between candidate x and cell p
PlanarDistance(x, p, tor) ==
    IF tor
    THEN Sqrt(WrapSep(x.xloc, p.xloc) * WrapSep(x.xloc, p.xloc)
                + WrapSep(x.zloc, p.zloc) * WrapSep(x.zloc, p.zloc))
    ELSE Sqrt((x.xloc - p.xloc) * (x.xloc - p.xloc) + (x.zloc - p.zloc) * (x.zloc - p.zloc))

\* C11: the planar distance a call uses for a candidate is, with toroidal
\* topology, sqrt(dx^2 + dz^2) with each axis term the smaller of the direct
\* and the wrap-around separation of that candidate, and the plain Euclidean
\* distance of the x and z separations without it.
C11_PlanarDistancePerCandidate ==
    call.status = "returned" =>
        \A i \in 1..Len(call.cellsPre) :
            call.distances[i] = PlanarDistance(call.cellsPre[i], cellPost, toroidal)

(***************************************************************************)
(* Rejection sampling of Pop.createCells (SpecGen)                         *)
(***************************************************************************)
\* the candidates whose own second draw allrands[i] is below their own
\* acceptance probability, in draw order
OwnAccepted(pop, stream) ==
    SelectSeq([k \in 1..pop.maxCells |-> k - 1],
              LAMBDA i : ProbAbove(pop, stream, i, genAllrands(pop.maxCells, stream, i)))

\* the cells of population number k that partition r holds, in creation order
CellsOfPop(r, k) == SelectSeq(node[r].cells, LAMBDA c : c.popid = pops[k].popgid)

\* C12: in createCells candidate i is accepted iff its own draw allrands[i] is
\* below its own acceptance probability; numCells is the number of accepted
\* candidates and cell number i of the population has the depth of the i-th
\* accepted candidate in draw order.
C12_AcceptByOwnDraw ==
    \A r \in Ranks : \A k \in 1..NumPops :
        node[r].nextPop > k =>
            LET own == OwnAccepted(pops[k], genrand)
                made == CellsOfPop(r, k)
            IN  /\ node[r].numCells[k] = Len(own)
                /\ \A j \in 1..Len(made) :
                      made[j].yfrac = yfracsAll(pops[k], genrand, own[r + (j - 1) * nhosts + 1])

====
